---- MODULE Spec2Model ----
(***************************************************************************)
(* Model of craft-api-utilities: the batch controller                      *)
(* (modules/helper_functions.py), the request executor                     *)
(* (modules/api_client.py) and the response normalisation layer            *)
(* (modules/models.py).                                                    *)
(***************************************************************************)
EXTENDS Integers, Sequences, FiniteSets, TLC

VARIABLES
    items,        \* async_batch_processor: the identifier list
    batch_size,   \* async_batch_processor: batch_size
    hook,         \* async_batch_processor: is a final_processor given
    func,         \* async_batch_processor: the per-item coroutine function
    pc,           \* position of the control flow of the operation under way
    batch_num,    \* async_batch_processor: 1-based index of the current batch
    tasks,        \* the per-item calls created so far, in creation order, each
                  \* with its item, batch, state, response status (0: none) and
                  \* return value
    finished,     \* the calls of the current batch in order of completion
    results,      \* async_batch_processor: the accumulator
    processed,    \* async_batch_processor: what final_processor returned last
    posts,        \* number of POSTs sent so far
    payload,      \* decoder: the JSON value handed to model_validate
    decoded,      \* decoder: the value model_validate returned
    cd,           \* a live ComplianceData object
    config,       \* the ApiConfig of the run
    request,      \* fetch_company: the JSON body of the POST sent
    resp,         \* fetch_company: what the network call produced
    ret,          \* what the call under way returned to its caller
    responses,    \* main: the results validated as ApiResponse
    companies_table  \* main: the rows of the table handed to the sink

vars == <<items, batch_size, hook, func, pc, batch_num, tasks, finished,
          results, processed, posts, payload, decoded, cd, config, request,
          resp, ret, responses, companies_table>>

batchVars == <<items, batch_size, hook, func, batch_num, tasks, finished,
               results, processed, posts>>

decodeVars == <<payload, decoded>>

fetchVars == <<config, request, resp, ret>>

mainVars == <<responses, companies_table>>

(***************************************************************************)
(* Bounds of the model.                                                    *)
(***************************************************************************)
MaxItems == 3
MaxBatch == 2
MaxIdLen == 2
MaxEdits == 2
MaxDatasets == 2

(***************************************************************************)
(* JSON values and Python values.                                          *)
(***************************************************************************)
Null == [t |-> "null"]

\* pydantic_core.PydanticUndefined, the default of a field that has a default_factory
Undefined == [t |-> "undefined"]

\* a pydantic ValidationError
Err == [t |-> "error"]

Str(s) == [t |-> "str", s |-> s]

\* a string kept character by character (identifiers, which int() parses)
StrC(c) == [t |-> "str", c |-> c]

Num(n) == [t |-> "int", n |-> n]

Obj(o) == [t |-> "obj", o |-> o]

List(l) == [t |-> "list", l |-> l]

\* an instance of a pydantic model class
Model(cls, f) == [t |-> "model", cls |-> cls, f |-> f]

EmptyObj == Obj([k \in {} |-> Null])

Range(s) == {s[i] : i \in DOMAIN s}

(***************************************************************************)
(* int(v) for a str v.                                                     *)
(***************************************************************************)
Digits == {"0", "2", "4"}

DigitVal(c) == CASE c = "0" -> 0 [] c = "2" -> 2 [] c = "4" -> 4 [] OTHER -> 0

RECURSIVE LStrip(_)
LStrip(c) == IF c # <<>> /\ Head(c) = " " THEN LStrip(Tail(c)) ELSE c

RECURSIVE RStrip(_)
RStrip(c) ==
    IF c # <<>> /\ c[Len(c)] = " " THEN RStrip(SubSeq(c, 1, Len(c) - 1)) ELSE c

\* digits, single underscores allowed between two digits
DigitsOk(c) ==
    /\ c # <<>>
    /\ \A i \in 1..Len(c) : c[i] \in Digits \cup {"_"}
    /\ c[1] # "_"
    /\ c[Len(c)] # "_"
    /\ \A i \in 1..(Len(c) - 1) : ~(c[i] = "_" /\ c[i + 1] = "_")

RECURSIVE DigitsValue(_, _)
DigitsValue(c, acc) ==
    IF c = <<>> THEN acc
    ELSE IF Head(c) = "_" THEN DigitsValue(Tail(c), acc)
    ELSE DigitsValue(Tail(c), 10 * acc + DigitVal(Head(c)))

\* [ok |-> FALSE] stands for ValueError
int(c) ==
    LET s == RStrip(LStrip(c))
        signed == s # <<>> /\ Head(s) \in {"-", "+"}
        body == IF signed THEN Tail(s) ELSE s
    IN  IF DigitsOk(body)
        THEN [ok |-> TRUE,
              n |-> IF signed /\ Head(s) = "-"
                    THEN 0 - DigitsValue(body, 0) ELSE DigitsValue(body, 0)]
        ELSE [ok |-> FALSE, n |-> 0]

(***************************************************************************)
(* The field tables of the model classes of modules/models.py.             *)
(* type: "str", "num", "id" (int | str), "strs" (list[str]),               *)
(*       "model" or "models" (list) of class of.                           *)
(* dflt: the Field(default=...) value, Undefined with a default_factory.   *)
(* fact: what the default_factory builds ("none", "model", "list",         *)
(*       "list1": a list holding one default instance, "required": the     *)
(*       field has neither and a missing key is a validation error).       *)
(***************************************************************************)
F(name, alias, type, of, nullable, dflt, fact) ==
    [name |-> name, alias |-> alias, type |-> type, of |-> of,
     nullable |-> nullable, dflt |-> dflt, fact |-> fact]

CurrentCreditRating == <<
    F("common_value", "commonValue", "str", "", TRUE, Str("Not available"), "none"),
    F("common_description", "commonDescription", "str", "", TRUE,
      Str("Not available"), "none") >>

CreditScore == <<
    F("current_credit_rating", "currentCreditRating", "model",
      "CurrentCreditRating", TRUE, Undefined, "model") >>

ComplianceData == <<
    F("request_status", "requestStatus", "str", "", TRUE, Str("NOT_REQUESTED"), "none"),
    F("datasets", "datasets", "strs", "", FALSE, Undefined, "list") >>

SecurityRating == <<
    F("score", "score", "num", "", TRUE, Num(0), "none"),
    F("grade", "grade", "str", "", TRUE, Str("Not Available"), "none"),
    F("datetime", "datetime", "str", "", TRUE, Str("Not Available"), "none") >>

SustainabilityRating == <<
    F("overall", "overall", "num", "", TRUE, Num(0), "none"),
    F("employee", "employee", "num", "", TRUE, Num(0), "none"),
    F("environment", "environment", "num", "", TRUE, Num(0), "none"),
    F("governance", "governance", "num", "", TRUE, Num(0), "none"),
    F("last_updated_date", "lastUpdatedDate", "str", "", TRUE, Str("Unknown"), "none") >>

Period == <<
    F("period_type", "periodType", "str", "", TRUE, Str("Unknown"), "none"),
    F("period_end_date", "endDate", "str", "", TRUE, Str("Unknown"), "none") >>

Ratios == <<
    F("period", "period", "model", "Period", TRUE, Undefined, "model"),
    F("debt_to_assets_ratio", "debtToAssetsRatio", "num", "", TRUE, Num(0), "none"),
    F("debt_to_equity_ratio", "debtToEquityRatio", "num", "", TRUE, Num(0), "none"),
    F("quick_ratio", "quickRatio", "num", "", TRUE, Num(0), "none"),
    F("current_ratio", "currentRatio", "num", "", TRUE, Num(0), "none") >>

CraftCompany == <<
    F("id", "id", "id", "", TRUE, Null, "none"),
    F("duns", "duns", "id", "", TRUE, Null, "none"),
    F("display_name", "displayName", "str", "", FALSE, Str("None Found"), "none"),
    F("country_of_registration", "countryOfRegistration", "str", "", FALSE,
      Str("None Found"), "none"),
    F("homepage", "homepage", "str", "", TRUE, Str("None Found"), "none"),
    F("short_description", "shortDescription", "str", "", TRUE,
      Str("None found"), "none"),
    F("company_type", "companyType", "str", "", FALSE, Str("None Found"), "none"),
    F("credit_score", "creditScore", "model", "CreditScore", TRUE, Undefined, "model"),
    F("compliance_data", "complianceData", "model", "ComplianceData", TRUE,
      Undefined, "model"),
    F("security_ratings", "securityRatings", "models", "SecurityRating", TRUE,
      Undefined, "list1"),
    F("sustainability_rating", "sustainabilityRating", "model",
      "SustainabilityRating", TRUE, Null, "none"),
    F("financial_ratios", "ratios", "models", "Ratios", TRUE, Undefined, "list") >>

\* CompanyData and ApiResponse derive from BaseModel, the others from
\* BaseModelReplaceNone
CompanyData == <<
    F("company", "company", "model", "CraftCompany", TRUE, Undefined, "required") >>

ApiResponse == <<
    F("data", "data", "model", "CompanyData", TRUE, Null, "none"),
    F("error", "error", "str", "", TRUE, Null, "none") >>

Companies == <<
    F("dnb_companies", "dnb_companies", "models", "CompanyData", FALSE, Undefined, "required") >>

ReplacesNone(cls) == cls \notin {"CompanyData", "Companies", "ApiResponse"}

model_fields(cls) ==
    CASE cls = "CurrentCreditRating" -> CurrentCreditRating
      [] cls = "CreditScore" -> CreditScore
      [] cls = "ComplianceData" -> ComplianceData
      [] cls = "SecurityRating" -> SecurityRating
      [] cls = "SustainabilityRating" -> SustainabilityRating
      [] cls = "Period" -> Period
      [] cls = "Ratios" -> Ratios
      [] cls = "CraftCompany" -> CraftCompany
      [] cls = "CompanyData" -> CompanyData
      [] cls = "Companies" -> Companies
      [] cls = "ApiResponse" -> ApiResponse

FieldNames(cls) == {f.name : f \in Range(model_fields(cls))}

FieldNamed(cls, name) == CHOOSE f \in Range(model_fields(cls)) : f.name = name

(***************************************************************************)
(* BaseModelReplaceNone.replace_none_with_defaults, a "before" model       *)
(* validator: data is the raw input, keyed as the payload is keyed.        *)
(***************************************************************************)
\* `field_info.default is not PydanticUndefinedAnnotation`: the right-hand side
\* is an exception class, which no field default is
DefaultIsNotUndefinedAnnotation(dflt) == TRUE

replace_none_with_defaults(cls, data) ==
    IF data.t # "obj" THEN data
    ELSE Obj([k \in DOMAIN data.o |->
                IF /\ k \in FieldNames(cls)
                   /\ data.o[k] = Null
                   /\ DefaultIsNotUndefinedAnnotation(FieldNamed(cls, k).dflt)
                THEN FieldNamed(cls, k).dflt
                ELSE data.o[k]])

(***************************************************************************)
(* The "before" field validators of CraftCompany.                          *)
(***************************************************************************)
\* the ValueError of int() is not caught
convert_id_to_int_uncaught(v) ==
    IF v = Null THEN Null
    ELSE IF v.t = "str"
         THEN IF int(v.c).ok THEN Num(int(v.c).n) ELSE Err
         ELSE v

convert_id_to_int(v) ==
    IF v = Null THEN Null
    ELSE IF v.t = "str"
         THEN IF int(v.c).ok THEN Num(int(v.c).n) ELSE v
         ELSE v

handle_ratios_array(v) ==
    IF v = Null THEN List(<<>>) ELSE v

before_validator(cls, f, v) ==
    IF cls = "CraftCompany" /\ f.name = "id" THEN convert_id_to_int(v)
    ELSE IF cls = "CraftCompany" /\ f.name = "financial_ratios"
         THEN handle_ratios_array(v)
         ELSE v

(***************************************************************************)
(* Model.model_validate(data): validation is by alias; a key that is       *)
(* missing, or whose value is PydanticUndefined, takes the default.        *)
(***************************************************************************)
RECURSIVE model_validate(_, _)

default_value(f) ==
    CASE f.fact = "none" -> f.dflt
      [] f.fact = "model" -> model_validate(f.of, EmptyObj)
      [] f.fact = "list" -> List(<<>>)
      [] f.fact = "list1" -> List(<<model_validate(f.of, EmptyObj)>>)
      [] f.fact = "required" -> Err

validate_type(f, v) ==
    CASE f.type = "str" -> IF v.t = "str" THEN v ELSE Err
      [] f.type = "num" -> IF v.t = "int" THEN v ELSE Err
      [] f.type = "id" -> IF v.t \in {"int", "str"} THEN v ELSE Err
      [] f.type = "strs" ->
            IF v.t = "list" /\ \A i \in DOMAIN v.l : v.l[i].t = "str" THEN v ELSE Err
      [] f.type = "model" ->
            IF v.t = "obj" THEN model_validate(f.of, v) ELSE Err
      [] f.type = "models" ->
            IF v.t # "list" THEN Err
            ELSE LET els == [i \in DOMAIN v.l |->
                               IF v.l[i].t = "obj"
                               THEN model_validate(f.of, v.l[i]) ELSE Err]
                 IN  IF \E i \in DOMAIN els : els[i] = Err THEN Err ELSE List(els)

validate_field(cls, f, data) ==
    IF f.alias \notin DOMAIN data.o THEN default_value(f)
    ELSE IF data.o[f.alias] = Undefined THEN default_value(f)
    ELSE LET w == before_validator(cls, f, data.o[f.alias])
         IN  IF w = Null
             THEN IF f.nullable THEN Null ELSE Err
             ELSE validate_type(f, w)

model_validate(cls, data) ==
    LET d == IF ReplacesNone(cls) THEN replace_none_with_defaults(cls, data) ELSE data
    IN  IF d.t # "obj" THEN Err
        ELSE LET vals == [n \in FieldNames(cls) |->
                            validate_field(cls, FieldNamed(cls, n), d)]
             IN  IF \E n \in FieldNames(cls) : vals[n] = Err
                 THEN Err ELSE Model(cls, vals)

(***************************************************************************)
(* ComplianceData: the computed fields, read from a live instance.         *)
(***************************************************************************)
in(code, datasets) == \E i \in DOMAIN datasets.l : datasets.l[i] = Str(code)

compliance_flag_adverse_media(self) == in("RRE", self.f.datasets)

compliance_flag_enforcements(self) == in("REL", self.f.datasets)

compliance_flag_state_owned(self) == in("SOE", self.f.datasets)

compliance_flag_persons_of_interest(self) == in("POI", self.f.datasets)

compliance_flag_current_sanctions(self) == in("SAN-CURRENT", self.f.datasets)

compliance_flag_former_sanctions(self) == in("SAN-FORMER", self.f.datasets)

compliance_flag_current_peps(self) == in("PEP-CURRENT", self.f.datasets)

\* the code of the flag above, pasted
compliance_flag_former_peps_pasted(self) == in("PEP-CURRENT", self.f.datasets)

compliance_flag_former_peps(self) == in("PEP-FORMER", self.f.datasets)

POSSIBLE_DATASETS ==
    {"RRE", "REL", "SOE", "POI", "INS", "SAN-CURRENT", "SAN-FORMER",
     "PEP-FORMER", "PEP-CURRENT"}

(***************************************************************************)
(* api_client.fetch_company: one POST, then the decoding of the response.  *)
(* A response is what the network call produced: a transport failure, a   *)
(* status code with a body.                                                *)
(***************************************************************************)
\* CompanyIdentifier: the values of the enum
CompanyIdentifier == {"duns", "id", "domain"}

\* ApiConfig(query_string=...): the fields the request depends on
ApiConfig == [company_id_field |-> "id", query_string |-> "query"]

\* a body that is not JSON
Text == [t |-> "text"]

FullCompany(company_id) ==
    Obj([id |-> company_id,
         duns |-> StrC(<<"4", "2">>),
         displayName |-> Str("Acme"),
         countryOfRegistration |-> Str("GB"),
         homepage |-> Str("acme.example"),
         shortDescription |-> Str("Anvils"),
         companyType |-> Str("private"),
         creditScore |-> Obj([currentCreditRating |->
             Obj([commonValue |-> Str("A"), commonDescription |-> Str("Low risk")])]),
         complianceData |->
             Obj([requestStatus |-> Str("COMPLETED"), datasets |-> List(<<Str("RRE")>>)]),
         securityRatings |-> List(<<
             Obj([score |-> Num(90), grade |-> Str("A"), datetime |-> Str("2024-01-01")])>>),
         sustainabilityRating |->
             Obj([overall |-> Num(50), employee |-> Num(50), environment |-> Num(50),
                  governance |-> Num(50), lastUpdatedDate |-> Str("2024-01-01")]),
         ratios |-> List(<<
             Obj([period |-> Obj([periodType |-> Str("annual"), endDate |-> Str("2023-12-31")]),
                  debtToAssetsRatio |-> Num(1), debtToEquityRatio |-> Num(1),
                  quickRatio |-> Num(1), currentRatio |-> Num(1)])>>)])

Wrap(company) == Obj([data |-> Obj([company |-> company])])

ResponseKinds ==
    {"transport", "status", "text", "array", "nodata", "datanull", "nocompany",
     "companynull", "sparse", "full"}

Response(company_id, kind) ==
    CASE kind = "transport" -> [status |-> 0, body |-> Text]
      [] kind = "status" -> [status |-> 500, body |-> Text]
      [] kind = "text" -> [status |-> 200, body |-> Text]
      [] kind = "array" -> [status |-> 200, body |-> List(<<>>)]
      [] kind = "nodata" -> [status |-> 200, body |-> EmptyObj]
      [] kind = "datanull" -> [status |-> 200, body |-> Obj([data |-> Null])]
      [] kind = "nocompany" ->
            [status |-> 200, body |-> Obj([data |-> EmptyObj])]
      [] kind = "companynull" -> [status |-> 200, body |-> Wrap(Null)]
      [] kind = "sparse" -> [status |-> 200, body |-> Wrap(Obj([id |-> company_id]))]
      [] kind = "full" -> [status |-> 200, body |-> Wrap(FullCompany(company_id))]

\* the exception the try block of fetch_company ends with, "" when it returns;
\* api_response is ApiResponse.model_validate(response.json())
TryBlock(response, api_response) ==
    IF response.status = 0 THEN "RequestError"                    \* client.post
    ELSE IF response.status \notin 200..299 THEN "HTTPStatusError" \* raise_for_status
    ELSE IF response.body = Text THEN "JSONDecodeError"           \* response.json()
    ELSE IF api_response = Err THEN "ValidationError"
    ELSE IF api_response.f.data = Null THEN "AttributeError"      \* None.company
    ELSE ""

\* isinstance(exception, class)
IsInstance(exc, class) ==
    \/ exc = class
    \/ class = "Exception"

\* only the transport and key errors are handled
ExceptClausesTransportOnly ==
    << [class |-> "RequestError", error |-> "Request error"],
       [class |-> "KeyError", error |-> "Missing key in response"] >>

\* the catch-all clause is missing
ExceptClausesNoCatchAll ==
    << [class |-> "HTTPStatusError", error |-> "HTTP"],
       [class |-> "RequestError", error |-> "Request error"],
       [class |-> "KeyError", error |-> "Missing key in response"] >>

\* the except clauses of fetch_company, in source order, with the error text
ExceptClauses ==
    << [class |-> "HTTPStatusError", error |-> "HTTP"],
       [class |-> "RequestError", error |-> "Request error"],
       [class |-> "KeyError", error |-> "Missing key in response"],
       [class |-> "Exception", error |-> "Unexpected error"] >>

\* the value a call returns or the exception it raises
Returns(v) == [raised |-> FALSE, value |-> v]

Raises(exc) == [raised |-> TRUE, value |-> Str(exc)]

fetch_company(company_id, response) ==
    LET api_response ==
            IF response.status \in 200..299 /\ response.body # Text
            THEN model_validate("ApiResponse", response.body) ELSE Err
        exc == TryBlock(response, api_response)
        handlers == {i \in DOMAIN ExceptClauses : IsInstance(exc, ExceptClauses[i].class)}
    IN  IF exc = ""
        THEN Returns(api_response.f.data.f.company)
        ELSE IF handlers = {} THEN Raises(exc)
        ELSE LET h == CHOOSE i \in handlers : \A j \in handlers : i <= j
             IN  Returns(Obj([id |-> company_id, data |-> Null,
                              error |-> Str(ExceptClauses[h].error)]))

(***************************************************************************)
(* helper_functions.async_batch_processor.                                 *)
(***************************************************************************)
\* range(start, stop, step)
RECURSIVE range(_, _, _)
range(start, stop, step) ==
    IF start >= stop THEN <<>> ELSE <<start>> \o range(start + step, stop, step)

\* s[i : j], 0-based, j exclusive and clipped to len(s)
Slice(s, i, j) == SubSeq(s, i + 1, IF j < Len(s) THEN j ELSE Len(s))

\* the starts stop one short of the end of the list
batches_short(its, size) ==
    LET starts == range(0, Len(its) - 1, size)
    IN  [k \in DOMAIN starts |-> Slice(its, starts[k], starts[k] + size)]

\* [items[i : i + batch_size] for i in range(0, len(items), batch_size)]
batches(its, size) ==
    LET starts == range(0, Len(its), size)
    IN  [k \in DOMAIN starts |-> Slice(its, starts[k], starts[k] + size)]

\* the calls of batch n, as indices of tasks
TasksOf(n) == {i \in DOMAIN tasks : tasks[i].batch = n}

\* done as soon as one awaitable is
GatherDoneFirst(n) == \E i \in TasksOf(n) : tasks[i].st = "done"

\* gather(..., return_exceptions=True): an exception counts as a result
GatherDoneOrRaised(n) == \A i \in TasksOf(n) : tasks[i].st \in {"done", "raised"}

\* asyncio.gather(*tasks) is done when every awaitable is done, or when one raised
GatherDone(n) == \A i \in TasksOf(n) : tasks[i].st = "done"

GatherFailed(n) == \E i \in TasksOf(n) : tasks[i].st = "raised"

RECURSIVE InOrder(_)
InOrder(S) ==
    IF S = {} THEN <<>>
    ELSE LET m == CHOOSE i \in S : \A j \in S : i <= j
         IN  <<m>> \o InOrder(S \ {m})

\* the results in the order the calls completed in
gather_as_completed(n, done_order) ==
    [k \in DOMAIN done_order |-> tasks[done_order[k]].ret]

\* the value of gather: the results in the order of the awaitables
gather(n, done_order) ==
    LET order == InOrder(TasksOf(n))
    IN  [k \in DOMAIN order |-> tasks[order[k]].ret]

\* a None from the processor falls through to the raw results
accumulate_no_skip(acc, has_processor, proc, batch_results) ==
    IF has_processor /\ proc # Null
    THEN IF proc.t = "list" THEN acc \o proc.l ELSE Append(acc, proc)
    ELSE acc \o batch_results

\* lines 56-69: what one completed batch does to the accumulator
accumulate(acc, has_processor, proc, batch_results) ==
    IF has_processor
    THEN IF proc = Null THEN acc
         ELSE IF proc.t = "list" THEN acc \o proc.l
         ELSE Append(acc, proc)
    ELSE acc \o batch_results

\* what a final_processor may return for batch_results
HookReturns(batch_results) ==
    {Null, Num(Len(batch_results)), List(batch_results \o <<Num(0)>>)}
        \cup {List(SubSeq(batch_results, 1, m)) : m \in 0..Len(batch_results)}

\* a per-item function other than fetch_company returns a value or raises
FuncResult(item, ok) ==
    IF ok THEN Returns([t |-> "result", of |-> item]) ELSE Raises("Error")

Ids == {Num(1), Num(2)}

\* fetch_company on every identifier and response of the model, evaluated once
FetchCompanyCalls ==
    [id \in Ids, kind \in ResponseKinds |-> fetch_company(id, Response(id, kind))]

ItemLists == UNION {[1..n -> Ids] : n \in 0..MaxItems}

\* main.py runs fetch_company without a final_processor; the other runs are
\* those of a per-item function that returns or raises, with or without one
Configs ==
    {[func |-> "fetch_company", hook |-> FALSE],
     [func |-> "func", hook |-> FALSE],
     [func |-> "func", hook |-> TRUE]}

Init ==
    /\ items \in ItemLists
    /\ batch_size \in 1..MaxBatch
    /\ \E c \in Configs : func = c.func /\ hook = c.hook
    /\ pc = "loop"
    /\ batch_num = 1
    /\ tasks = <<>>
    /\ finished = <<>>
    /\ results = <<>>
    /\ processed = Null
    /\ posts = 0
    /\ payload = Null
    /\ decoded = Null
    /\ cd = Null
    /\ config = ApiConfig
    /\ request = Null
    /\ responses = Null
    /\ companies_table = Null
    /\ resp = Null
    /\ ret = Null

\* lines 49-53: the coroutines of the next batch are created and handed to gather
GatherBatch ==
    /\ pc = "loop"
    /\ batch_num <= Len(batches(items, batch_size))
    /\ LET batch == batches(items, batch_size)[batch_num]
       IN  tasks' = tasks \o [j \in DOMAIN batch |->
                        [item |-> batch[j], batch |-> batch_num, st |-> "pending",
                         status |-> 0, ret |-> Null]]
    /\ finished' = <<>>
    /\ pc' = "gather"
    /\ UNCHANGED fetchVars
    /\ UNCHANGED mainVars
    /\ UNCHANGED <<items, batch_size, hook, func, batch_num, results, processed,
                   posts, payload, decoded, cd>>

\* every request is sent a second time
post_with_retry(sent) == sent + 2

\* client.post: one request goes out
post(sent) == sent + 1

\* the event loop runs a coroutine up to its await: fetch_company sends its POST
TaskStart(i) ==
    /\ i \in DOMAIN tasks
    /\ tasks[i].st = "pending"
    /\ tasks' = [tasks EXCEPT ![i].st = "inflight"]
    /\ posts' = IF func = "fetch_company" THEN post(posts) ELSE posts
    /\ UNCHANGED fetchVars
    /\ UNCHANGED mainVars
    /\ UNCHANGED <<items, batch_size, hook, func, pc, batch_num, finished, results,
                   processed, payload, decoded, cd>>

\* the awaited call of coroutine i completes and the coroutine runs to its end
TaskComplete(i, kind) ==
    /\ i \in DOMAIN tasks
    /\ tasks[i].st = "inflight"
    /\ IF func = "fetch_company"
       THEN kind \in ResponseKinds
       ELSE kind \in {"ok", "raise"}
    /\ LET r == IF func = "fetch_company"
                THEN FetchCompanyCalls[tasks[i].item, kind]
                ELSE FuncResult(tasks[i].item, kind = "ok")
       IN  tasks' = [tasks EXCEPT ![i].st = IF r.raised THEN "raised" ELSE "done",
                                  ![i].status = IF func = "fetch_company"
                                                THEN Response(tasks[i].item, kind).status
                                                ELSE 0,
                                  ![i].ret = r.value]
    /\ finished' = Append(finished, i)
    /\ UNCHANGED fetchVars
    /\ UNCHANGED mainVars
    /\ UNCHANGED <<items, batch_size, hook, func, pc, batch_num, results, processed,
                   posts, payload, decoded, cd>>

\* lines 53-69: gather returns the batch results, which are accumulated
GatherReturn ==
    /\ pc = "gather"
    /\ GatherDone(batch_num)
    /\ LET batch_results == gather(batch_num, finished)
       IN  /\ processed' \in IF hook THEN HookReturns(batch_results) ELSE {processed}
           /\ results' = accumulate(results, hook, processed', batch_results)
    /\ batch_num' = batch_num + 1
    /\ pc' = "loop"
    /\ UNCHANGED fetchVars
    /\ UNCHANGED mainVars
    /\ UNCHANGED <<items, batch_size, hook, func, tasks, finished, posts, payload,
                   decoded, cd>>

\* line 53: gather raises the exception of a call, which nothing catches
GatherRaise ==
    /\ pc = "gather"
    /\ GatherFailed(batch_num)
    /\ pc' = "raised"
    /\ UNCHANGED fetchVars
    /\ UNCHANGED mainVars
    /\ UNCHANGED <<items, batch_size, hook, func, batch_num, tasks, finished, results,
                   processed, posts, payload, decoded, cd>>

\* line 71
Return ==
    /\ pc = "loop"
    /\ batch_num > Len(batches(items, batch_size))
    /\ pc' = "returned"
    /\ UNCHANGED fetchVars
    /\ UNCHANGED mainVars
    /\ UNCHANGED <<items, batch_size, hook, func, batch_num, tasks, finished, results,
                   processed, posts, payload, decoded, cd>>

Next ==
    \/ GatherBatch
    \/ \E i \in 1..(MaxItems + 1) : TaskStart(i)
    \/ \E i \in 1..(MaxItems + 1), kind \in ResponseKinds \cup {"ok", "raise"} :
            TaskComplete(i, kind)
    \/ GatherReturn
    \/ GatherRaise
    \/ Return

Spec == Init /\ [][Next]_vars

(***************************************************************************)
(* Decoding one response body: ApiResponse.model_validate(payload).        *)
(***************************************************************************)
\* the keys of a company payload, as paths from the company object; a step
\* into a list goes into each of its elements
Paths ==
    {<<"id">>, <<"duns">>, <<"displayName">>, <<"countryOfRegistration">>,
     <<"homepage">>, <<"shortDescription">>, <<"companyType">>,
     <<"creditScore">>, <<"creditScore", "currentCreditRating">>,
     <<"creditScore", "currentCreditRating", "commonValue">>,
     <<"creditScore", "currentCreditRating", "commonDescription">>,
     <<"complianceData">>, <<"complianceData", "requestStatus">>,
     <<"complianceData", "datasets">>,
     <<"securityRatings">>, <<"securityRatings", "score">>,
     <<"securityRatings", "grade">>, <<"securityRatings", "datetime">>,
     <<"sustainabilityRating">>, <<"sustainabilityRating", "overall">>,
     <<"sustainabilityRating", "employee">>,
     <<"sustainabilityRating", "environment">>,
     <<"sustainabilityRating", "governance">>,
     <<"sustainabilityRating", "lastUpdatedDate">>,
     <<"ratios">>, <<"ratios", "period">>, <<"ratios", "period", "periodType">>,
     <<"ratios", "period", "endDate">>, <<"ratios", "debtToAssetsRatio">>,
     <<"ratios", "debtToEquityRatio">>, <<"ratios", "quickRatio">>,
     <<"ratios", "currentRatio">>}

\* the payload v with the key at path made null, or removed
RECURSIVE Edit(_, _, _)
Edit(v, path, e) ==
    IF v.t = "list" THEN List([i \in DOMAIN v.l |-> Edit(v.l[i], path, e)])
    ELSE IF v.t # "obj" \/ Head(path) \notin DOMAIN v.o THEN v
    ELSE IF Len(path) > 1
         THEN Obj([v.o EXCEPT ![Head(path)] = Edit(@, Tail(path), e)])
    ELSE IF e = "null" THEN Obj([v.o EXCEPT ![Head(path)] = Null])
    ELSE Obj([k \in DOMAIN v.o \ {Head(path)} |-> v.o[k]])

\* the payloads that differ from v by at most n edits of kinds es at paths ps
RECURSIVE Edited(_, _, _, _)
Edited(v, n, ps, es) ==
    IF n = 0 THEN {v}
    ELSE LET S == Edited(v, n - 1, ps, es)
         IN  S \cup {Edit(p, path, e) : p \in S, path \in ps, e \in es}

IdChars == {"4", "2", "a", "-", " ", "_"}

IdStrings == UNION {[1..n -> IdChars] : n \in 0..MaxIdLen}

\* the company objects decoded: every identifier in a full company, and a
\* full company with up to MaxEdits keys null or missing
CompanyPayloads ==
    {FullCompany(i) : i \in Ids \cup {StrC(c) : c \in IdStrings}}
        \cup Edited(FullCompany(StrC(<<"4", "2">>)), MaxEdits, Paths, {"null", "absent"})

InitDecode ==
    /\ payload \in {Wrap(c) : c \in CompanyPayloads}
    /\ decoded = Null
    /\ pc = "input"
    /\ items = <<>>
    /\ batch_size = 1
    /\ hook = FALSE
    /\ func = "fetch_company"
    /\ batch_num = 1
    /\ tasks = <<>>
    /\ finished = <<>>
    /\ results = <<>>
    /\ processed = Null
    /\ posts = 0
    /\ cd = Null
    /\ config = ApiConfig
    /\ request = Null
    /\ responses = Null
    /\ companies_table = Null
    /\ resp = Null
    /\ ret = Null

Decode ==
    /\ pc = "input"
    /\ decoded' = model_validate("ApiResponse", payload)
    /\ pc' = "decoded"
    /\ UNCHANGED fetchVars
    /\ UNCHANGED mainVars
    /\ UNCHANGED <<batchVars, payload, cd>>

NextDecode == Decode

SpecDecode == InitDecode /\ [][NextDecode]_vars

(***************************************************************************)
(* A ComplianceData object: built by validation, then changed in place     *)
(* (the model is not frozen and datasets is a plain list).                 *)
(***************************************************************************)
DatasetLists ==
    UNION {[1..n -> {Str(c) : c \in POSSIBLE_DATASETS}] : n \in 0..MaxDatasets}

Statuses == {Str("COMPLETED"), Str("NOT_REQUESTED")}

CompliancePayloads ==
    LET full == {Obj([requestStatus |-> r, datasets |-> d]) :
                    r \in Statuses \cup {Null},
                    d \in {List(l) : l \in DatasetLists} \cup {Null}}
    IN  full \cup {Edit(p, <<k>>, "absent") : p \in full, k \in {"requestStatus", "datasets"}}
             \cup {EmptyObj}

InitCompliance ==
    /\ payload \in CompliancePayloads
    /\ cd = Null
    /\ config = ApiConfig
    /\ request = Null
    /\ responses = Null
    /\ companies_table = Null
    /\ resp = Null
    /\ ret = Null
    /\ pc = "input"
    /\ decoded = Null
    /\ items = <<>>
    /\ batch_size = 1
    /\ hook = FALSE
    /\ func = "fetch_company"
    /\ batch_num = 1
    /\ tasks = <<>>
    /\ finished = <<>>
    /\ results = <<>>
    /\ processed = Null
    /\ posts = 0

\* ComplianceData.model_validate(payload); the payload is not kept
Construct ==
    /\ pc = "input"
    /\ cd' = model_validate("ComplianceData", payload)
    /\ payload' = Null
    /\ pc' = "live"
    /\ UNCHANGED fetchVars
    /\ UNCHANGED mainVars
    /\ UNCHANGED <<batchVars, decoded>>

\* list.remove(x): the first occurrence goes
remove(l, x) ==
    LET i == CHOOSE k \in DOMAIN l : l[k] = x /\ \A j \in 1..(k - 1) : l[j] # x
    IN  SubSeq(l, 1, i - 1) \o SubSeq(l, i + 1, Len(l))

\* cd.datasets.append(code)
AppendDataset(code) ==
    /\ pc = "live"
    /\ cd.t = "model"
    /\ Len(cd.f.datasets.l) <= MaxDatasets
    /\ cd' = [cd EXCEPT !.f.datasets = List(Append(@.l, Str(code)))]
    /\ UNCHANGED fetchVars
    /\ UNCHANGED mainVars
    /\ UNCHANGED <<batchVars, decodeVars, pc>>

\* cd.datasets.remove(code)
RemoveDataset(code) ==
    /\ pc = "live"
    /\ cd.t = "model"
    /\ Str(code) \in Range(cd.f.datasets.l)
    /\ cd' = [cd EXCEPT !.f.datasets = List(remove(@.l, Str(code)))]
    /\ UNCHANGED fetchVars
    /\ UNCHANGED mainVars
    /\ UNCHANGED <<batchVars, decodeVars, pc>>

\* cd.request_status = status
SetRequestStatus(status) ==
    /\ pc = "live"
    /\ cd.t = "model"
    /\ cd' = [cd EXCEPT !.f.request_status = status]
    /\ UNCHANGED fetchVars
    /\ UNCHANGED mainVars
    /\ UNCHANGED <<batchVars, decodeVars, pc>>

NextCompliance ==
    \/ Construct
    \/ \E code \in POSSIBLE_DATASETS : AppendDataset(code)
    \/ \E code \in POSSIBLE_DATASETS : RemoveDataset(code)
    \/ \E status \in Statuses \cup {Null} : SetRequestStatus(status)

SpecCompliance == InitCompliance /\ [][NextCompliance]_vars

(***************************************************************************)
(* The batch controller: properties of Spec.                               *)
(***************************************************************************)
Started(i) == tasks[i].st # "pending"

Completed(i) == tasks[i].st \in {"done", "raised"}

InFlight == {i \in DOMAIN tasks : tasks[i].st = "inflight"}

IsSuccess(v) == v.t = "model" /\ v.cls = "CraftCompany"

IsFailure(v) == v.t = "obj" /\ DOMAIN v.o = {"id", "data", "error"}

RECURSIVE Concat(_)
Concat(ss) == IF ss = <<>> THEN <<>> ELSE Head(ss) \o Concat(Tail(ss))

\* C1: a run without a final_processor that returns, returns one entry per
\* item, entry i being what the call made for items[i] returned, whatever
\* order the calls of a batch completed in.
C1_OrderPreserved ==
    (pc = "returned" /\ ~hook) =>
        /\ Len(results) = Len(items)
        /\ Len(tasks) = Len(items)
        /\ \A i \in DOMAIN items :
              /\ tasks[i].item = items[i]
              /\ results[i] = tasks[i].ret

\* a returned run of one batch of two different items whose second call
\* completed first
C1_Witness ==
    /\ pc = "returned"
    /\ ~hook
    /\ Len(items) = 2
    /\ items[1] # items[2]
    /\ batch_size = 2
    /\ finished = <<2, 1>>
    /\ results = <<tasks[1].ret, tasks[2].ret>>

HttpFailed(i) == tasks[i].status # 0 /\ tasks[i].status \notin 200..299

\* C2: with fetch_company as the per-item function, a non-2xx response never
\* makes the run raise, and a run in which exactly one call got a non-2xx
\* response and the others a company returns N entries: a failure entry
\* carrying the failing identifier at that position, and successes elsewhere.
C2_FailureIsolated ==
    func = "fetch_company" =>
        /\ (\E i \in DOMAIN tasks : HttpFailed(i)) => pc # "raised"
        /\ \A i \in DOMAIN tasks :
              ( /\ pc = "returned"
                /\ HttpFailed(i)
                /\ \A j \in DOMAIN tasks \ {i} : IsSuccess(tasks[j].ret) )
              => /\ Len(results) = Len(items)
                 /\ IsFailure(results[i])
                 /\ results[i].o.id = items[i]
                 /\ \A j \in DOMAIN items \ {i} : IsSuccess(results[j])

\* three identifiers in groups of two: the first call fails with a non-2xx
\* status, the rest of its group and the next group succeed
C2_Witness ==
    /\ pc = "returned"
    /\ func = "fetch_company"
    /\ Len(items) = 3
    /\ batch_size = 2
    /\ HttpFailed(1)
    /\ IsFailure(results[1])
    /\ IsSuccess(results[2])
    /\ IsSuccess(results[3])

\* C3: no call of fetch_company ends by raising, whatever the network call
\* produced; every completed call has returned a value.
C3_NeverRaises ==
    func = "fetch_company" =>
        /\ pc # "raised"
        /\ \A i \in DOMAIN tasks : tasks[i].st # "raised"

\* a call whose 2xx response could not be decoded has returned a failure value
C3_Witness ==
    /\ func = "fetch_company"
    /\ \E i \in DOMAIN tasks :
          /\ tasks[i].st = "done"
          /\ tasks[i].status = 200
          /\ IsFailure(tasks[i].ret)
          /\ tasks[i].ret.o.error = Str("Unexpected error")

\* C4: a call of a later group is started only when every call of the
\* earlier groups has completed, and at most batch_size calls are in flight.
C4_GroupsSequential ==
    /\ \A i, j \in DOMAIN tasks :
          (tasks[j].batch > tasks[i].batch /\ Started(j)) => Completed(i)
    /\ Cardinality(InFlight) <= batch_size

\* the second group is in flight, batch_size calls at once, after the first
\* group has completed
C4_Witness ==
    /\ Cardinality(InFlight) = batch_size
    /\ \A i \in InFlight : tasks[i].batch = 2
    /\ \E i \in DOMAIN tasks : tasks[i].batch = 1 /\ Completed(i)

\* C5: the groups are ceil(N/B) contiguous slices whose concatenation is the
\* list; all but the last have B members, the last has 1..B; 237 items in
\* groups of 100 give sizes 100, 100, 37, and 50 items in groups of 50 one
\* group of 50.
C5_Partition ==
    LET bs == batches(items, batch_size)
        n == Len(bs)
    IN  /\ n * batch_size >= Len(items)
        /\ (n - 1) * batch_size < Len(items)
        /\ Concat(bs) = items
        /\ \A k \in 1..(n - 1) : Len(bs[k]) = batch_size
        /\ n > 0 => Len(bs[n]) \in 1..batch_size
        /\ \A k \in DOMAIN tasks :
              tasks[k].item = items[k] /\ tasks[k].batch = ((k - 1) \div batch_size) + 1
        /\ tasks = <<>> =>
              /\ [k \in 1..3 |-> Len(batches([i \in 1..237 |-> i], 100)[k])]
                    = <<100, 100, 37>>
              /\ Len(batches([i \in 1..237 |-> i], 100)) = 3
              /\ batches([i \in 1..50 |-> i], 50) = <<[i \in 1..50 |-> i]>>

\* three items in groups of two: the short last group has been handed to gather
C5_Witness ==
    /\ Len(items) = 3
    /\ batch_size = 2
    /\ pc = "gather"
    /\ batch_num = 2
    /\ Len(tasks) = 3
    /\ tasks[3].batch = 2

\* C6: with a final_processor, a completed group changes the accumulator by
\* the processor's return value only: None leaves it unchanged, a list
\* extends it by the list's elements in order, any other value is appended
\* as one entry.
C6_PostProcess ==
    [][(hook /\ pc = "gather" /\ pc' = "loop") =>
          /\ processed' = Null => results' = results
          /\ (processed' # Null /\ processed'.t = "list") =>
                /\ Len(results') = Len(results) + Len(processed'.l)
                /\ results' = results \o processed'.l
          /\ (processed' # Null /\ processed'.t # "list") =>
                /\ Len(results') = Len(results) + 1
                /\ results' = Append(results, processed')]_vars

\* three groups of one: the first was spliced in as a list, the second
\* summarised as a single value, the third dropped
C6_Witness ==
    /\ hook
    /\ batch_size = 1
    /\ Len(items) = 3
    /\ batch_num = 4
    /\ processed = Null
    /\ results = <<tasks[1].ret, Num(1)>>

(***************************************************************************)
(* The normalisation layer: properties of SpecDecode and SpecCompliance.   *)
(***************************************************************************)
\* the company object of the payload, and the record decoded from it
PayloadCompany == payload.o.data.o.company

DecodedCompany == decoded.f.data.f.company

IsMissing(data, alias) == alias \notin DOMAIN data.o \/ data.o[alias] = Null

\* every field of inst whose key is missing or null in data holds the
\* declared default of the field, at every level of nesting
RECURSIVE Defaulted(_, _, _)
Defaulted(cls, data, inst) ==
    /\ inst.t = "model"
    /\ \A n \in FieldNames(cls) :
          LET f == FieldNamed(cls, n)
          IN  IF IsMissing(data, f.alias) THEN inst.f[n] = default_value(f)
              ELSE IF f.type = "model" /\ data.o[f.alias].t = "obj"
                   THEN Defaulted(f.of, data.o[f.alias], inst.f[n])
              ELSE IF f.type = "models" /\ data.o[f.alias].t = "list"
                   THEN /\ inst.f[n].t = "list"
                        /\ \A i \in DOMAIN data.o[f.alias].l :
                              Defaulted(f.of, data.o[f.alias].l[i], inst.f[n].l[i])
              ELSE TRUE

\* C7: decoding a company payload succeeds and every field of the record,
\* at every level, whose key is absent from the payload or null in it holds
\* exactly the declared default of the field.
C7_DefaultingTotality ==
    pc = "decoded" =>
        /\ decoded # Err
        /\ Defaulted("CraftCompany", PayloadCompany, DecodedCompany)

DefaultCurrentCreditRating ==
    Model("CurrentCreditRating",
          [common_value |-> Str("Not available"),
           common_description |-> Str("Not available")])

DefaultCreditScore ==
    Model("CreditScore", [current_credit_rating |-> DefaultCurrentCreditRating])

DefaultComplianceData ==
    Model("ComplianceData",
          [request_status |-> Str("NOT_REQUESTED"), datasets |-> List(<<>>)])

DefaultSecurityRating ==
    Model("SecurityRating",
          [score |-> Num(0), grade |-> Str("Not Available"),
           datetime |-> Str("Not Available")])

DefaultPeriod ==
    Model("Period", [period_type |-> Str("Unknown"), period_end_date |-> Str("Unknown")])

NestedPaths ==
    {<<"creditScore">>, <<"creditScore", "currentCreditRating">>,
     <<"complianceData">>, <<"securityRatings">>, <<"ratios", "period">>}

\* a full company in which nothing but nested objects are null
NestedNullPayloads ==
    {Wrap(c) : c \in Edited(FullCompany(StrC(<<"4", "2">>)), MaxEdits,
                            NestedPaths, {"null"})}

\* C8: when nested objects of the payload are null, decoding succeeds and
\* the record holds a fully-defaulted nested object in the place of each
\* (for securityRatings a list of one neutral entry).
C8_RecursiveSubstitution ==
    (pc = "decoded" /\ payload \in NestedNullPayloads) =>
        /\ decoded # Err
        /\ PayloadCompany.o.creditScore = Null =>
              DecodedCompany.f.credit_score = DefaultCreditScore
        /\ ( /\ PayloadCompany.o.creditScore # Null
             /\ PayloadCompany.o.creditScore.o.currentCreditRating = Null ) =>
              DecodedCompany.f.credit_score.f.current_credit_rating
                  = DefaultCurrentCreditRating
        /\ PayloadCompany.o.complianceData = Null =>
              DecodedCompany.f.compliance_data = DefaultComplianceData
        /\ PayloadCompany.o.securityRatings = Null =>
              DecodedCompany.f.security_ratings = List(<<DefaultSecurityRating>>)
        /\ \A i \in DOMAIN PayloadCompany.o.ratios.l :
              PayloadCompany.o.ratios.l[i].o.period = Null =>
                  DecodedCompany.f.financial_ratios.l[i].f.period = DefaultPeriod

\* C9: each of the 8 flags of a live ComplianceData object is a boolean equal
\* to the membership of its code in the current datasets list, after
\* construction and after every change of the list or of request_status.
C9_FlagPurity ==
    (pc = "live" /\ cd.t = "model") =>
        LET L == Range(cd.f.datasets.l)
            flags == <<compliance_flag_adverse_media(cd),
                       compliance_flag_enforcements(cd),
                       compliance_flag_state_owned(cd),
                       compliance_flag_persons_of_interest(cd),
                       compliance_flag_current_sanctions(cd),
                       compliance_flag_former_sanctions(cd),
                       compliance_flag_current_peps(cd),
                       compliance_flag_former_peps(cd)>>
            codes == <<"RRE", "REL", "SOE", "POI", "SAN-CURRENT", "SAN-FORMER",
                       "PEP-CURRENT", "PEP-FORMER">>
        IN  \A k \in 1..8 :
              /\ flags[k] \in BOOLEAN
              /\ flags[k] = (Str(codes[k]) \in L)

\* an object whose list was changed to hold INS and PEP-FORMER and whose
\* request_status was set to null: only the former-PEP flag is set
C9_Witness ==
    /\ pc = "live"
    /\ cd.t = "model"
    /\ cd.f.datasets = List(<<Str("INS"), Str("PEP-FORMER")>>)
    /\ cd.f.request_status = Null
    /\ compliance_flag_former_peps(cd)
    /\ ~compliance_flag_current_peps(cd)
    /\ ~compliance_flag_adverse_media(cd)

\* C10: decoding a full company never fails on its id; a string id that
\* parses as an integer is decoded to that integer ("42" to 42), a string
\* that does not parse is kept unchanged ("a" stays "a"), a numeric id is
\* kept as it is.
C10_IdCoercion ==
    (pc = "decoded" /\ ~IsMissing(PayloadCompany, "id")) =>
        LET v == PayloadCompany.o.id
        IN  /\ PayloadCompany = FullCompany(v) => decoded # Err
            /\ decoded # Err =>
                  /\ (v.t = "str" /\ int(v.c).ok) =>
                        DecodedCompany.f.id = Num(int(v.c).n)
                  /\ (v.t = "str" /\ ~int(v.c).ok) => DecodedCompany.f.id = v
                  /\ v.t = "int" => DecodedCompany.f.id = v
                  /\ v = StrC(<<"4", "2">>) => DecodedCompany.f.id = Num(42)
                  /\ v = StrC(<<"a">>) => DecodedCompany.f.id = StrC(<<"a">>)
                  /\ v = StrC(<<"-", "4">>) => DecodedCompany.f.id = Num(0 - 4)
                  /\ v = StrC(<<"4", "a">>) => DecodedCompany.f.id = v

\* the id "42" of a full company was decoded to the integer 42
C10_Witness ==
    /\ pc = "decoded"
    /\ PayloadCompany = FullCompany(StrC(<<"4", "2">>))
    /\ decoded # Err
    /\ DecodedCompany.f.id = Num(42)

(***************************************************************************)
(* One call of api_client.fetch_company(client, QUERY, company_id).        *)
(***************************************************************************)
\* line 13: payload = {"query": QUERY, "variables": {"id": company_id}}
request_body(QUERY, company_id) ==
    Obj([query |-> Str(QUERY), variables |-> Obj([id |-> company_id])])

\* what the network call may produce: the responses of Response, and a 2xx
\* response with a company of which up to MaxEdits keys are null or missing
FetchResponses(company_id) ==
    {[kind |-> k, status |-> Response(company_id, k).status,
      body |-> Response(company_id, k).body] : k \in ResponseKinds}
        \cup {[kind |-> "edited", status |-> 200, body |-> Wrap(c)] :
                 c \in Edited(FullCompany(company_id), MaxEdits, Paths,
                              {"null", "absent"})}

InitFetch ==
    /\ items \in {<<id>> : id \in Ids}
    /\ config \in {[ApiConfig EXCEPT !.company_id_field = f] : f \in CompanyIdentifier}
    /\ request = Null
    /\ responses = Null
    /\ companies_table = Null
    /\ resp = Null
    /\ ret = Null
    /\ pc = "call"
    /\ posts = 0
    /\ batch_size = 1
    /\ hook = FALSE
    /\ func = "fetch_company"
    /\ batch_num = 1
    /\ tasks = <<>>
    /\ finished = <<>>
    /\ results = <<>>
    /\ processed = Null
    /\ payload = Null
    /\ decoded = Null
    /\ cd = Null

\* lines 13-14: the body is built and posted
Post ==
    /\ pc = "call"
    /\ request' = request_body(config.query_string, items[1])
    /\ posts' = post(posts)
    /\ pc' = "awaiting"
    /\ UNCHANGED mainVars
    /\ UNCHANGED <<items, batch_size, hook, func, batch_num, tasks, finished,
                   results, processed, payload, decoded, cd, config, resp, ret>>

\* lines 14-41: the network call ends and the call runs to its end
Respond ==
    /\ pc = "awaiting"
    /\ \E r \in FetchResponses(items[1]) :
          /\ resp' = r
          /\ ret' = fetch_company(items[1], r).value
          /\ pc' = IF fetch_company(items[1], r).raised THEN "raised" ELSE "done"
    /\ UNCHANGED mainVars
    /\ UNCHANGED <<batchVars, decodeVars, cd, config, request>>

NextFetch ==
    \/ Post
    \/ Respond

SpecFetch == InitFetch /\ [][NextFetch]_vars

(***************************************************************************)
(* The request executor: properties of SpecFetch.                          *)
(***************************************************************************)
\* a 2xx JSON object in which the company is an object
EntityPresent(r) ==
    /\ r.status \in 200..299
    /\ r.body.t = "obj"
    /\ "data" \in DOMAIN r.body.o
    /\ r.body.o.data.t = "obj"
    /\ "company" \in DOMAIN r.body.o.data.o
    /\ r.body.o.data.o.company.t = "obj"

\* a 2xx JSON object without a company: the company key or the data wrapper
\* is missing or null
NoEntity(r) ==
    /\ r.status \in 200..299
    /\ r.body.t = "obj"
    /\ \/ "data" \notin DOMAIN r.body.o
       \/ r.body.o.data = Null
       \/ /\ r.body.o.data.t = "obj"
          /\ \/ "company" \notin DOMAIN r.body.o.data.o
             \/ r.body.o.data.o.company = Null

\* C11: a response whose company object is present, however sparse, decodes
\* to a record, and a response without a company entity (company or data
\* missing or null) yields a failure outcome carrying the identifier.
C11_DecodeFailsOnlyWithoutEntity ==
    pc = "done" =>
        /\ EntityPresent(resp) => IsSuccess(ret)
        /\ NoEntity(resp) => (IsFailure(ret) /\ ret.o.id = items[1])

\* the kind of a failure, read from the text its error starts with
ErrorKind(failure) ==
    CASE failure.o.error = Str("HTTP") -> "HttpStatus"
      [] failure.o.error = Str("Request error") -> "Transport"
      [] failure.o.error = Str("Missing key in response") -> "Decode"
      [] OTHER -> "Unexpected"

\* the cause of a failed call: no response, a non-2xx response, or a 2xx
\* response whose body is malformed or of an unexpected shape
Cause(r) ==
    IF r.status = 0 THEN "Transport"
    ELSE IF r.status \notin 200..299 THEN "HttpStatus"
    ELSE "Decode"

\* C13: every failure fetch_company returns carries the identifier and is
\* classified by its cause: non-2xx as HttpStatus, transport failure as
\* Transport, a malformed or unexpectedly shaped body as Decode.
C13_FailureClassified ==
    (pc = "done" /\ IsFailure(ret)) =>
        /\ ret.o.id = items[1]
        /\ ErrorKind(ret) = Cause(resp)

C12_OnePostPerIdentifier ==
    func = "fetch_company" =>
        /\ posts = Cardinality({i \in DOMAIN tasks : Started(i)})
        /\ pc = "returned" => posts = Len(items)

\* a returned run over a list that holds an identifier twice, with a failed
\* and a successful call
C12_Witness ==
    /\ pc = "returned"
    /\ func = "fetch_company"
    /\ posts = 3
    /\ Len(items) = 3
    /\ items[1] = items[2]
    /\ IsFailure(results[1])
    /\ IsSuccess(results[2])

\* C17: once the per-item function has raised for an item of group k, the run
\* never returns: it stays in the gather of group k until it raises, the
\* final_processor is not invoked for group k (the loop does not advance), no
\* call of a later group exists, and the results hold nothing of group k.
C17_RaiseAborts ==
    \A i \in DOMAIN tasks :
        tasks[i].st = "raised" =>
            /\ pc \in {"gather", "raised"}
            /\ batch_num = tasks[i].batch
            /\ \A j \in DOMAIN tasks : tasks[j].batch <= tasks[i].batch
            /\ ~hook => Len(results) = Len(Concat(SubSeq(batches(items, batch_size),
                                                         1, batch_num - 1)))

\* the run has raised in its second group with results of the first
\* accumulated, under a final_processor
C17_Witness ==
    /\ pc = "raised"
    /\ hook
    /\ batch_num = 2
    /\ results # <<>>
    /\ \E i \in TasksOf(2) : tasks[i].st = "raised"
    /\ \A i \in TasksOf(1) : tasks[i].st = "done"

(***************************************************************************)
(* api_client.fetch_companies(QUERY, company_ids, api_key).                *)
(***************************************************************************)
\* line 61: groups of 100
ChunkSize == 100

\* chunk_list(lst, n): contiguous groups of n, the last one possibly shorter
chunk_list(lst, n) == [k \in 1..((Len(lst) + n - 1) \div n) |->
                         SubSeq(lst, (k - 1) * n + 1,
                                IF k * n < Len(lst) THEN k * n ELSE Len(lst))]

InitCompanies ==
    /\ items \in ItemLists
    /\ batch_size = ChunkSize
    /\ hook = FALSE
    /\ func = "fetch_company"
    /\ pc = "loop"
    /\ batch_num = 1
    /\ tasks = <<>>
    /\ finished = <<>>
    /\ results = <<>>
    /\ processed = Null
    /\ posts = 0
    /\ payload = Null
    /\ decoded = Null
    /\ cd = Null
    /\ config = ApiConfig
    /\ request = Null
    /\ responses = Null
    /\ companies_table = Null
    /\ resp = Null
    /\ ret = Null

\* lines 66-68: the calls of the next batch are created and gathered
GatherChunk ==
    /\ pc = "loop"
    /\ batch_num <= Len(chunk_list(items, ChunkSize))
    /\ LET batch == chunk_list(items, ChunkSize)[batch_num]
       IN  tasks' = tasks \o [j \in DOMAIN batch |->
                        [item |-> batch[j], batch |-> batch_num, st |-> "pending",
                         status |-> 0, ret |-> Null]]
    /\ finished' = <<>>
    /\ pc' = "gather"
    /\ UNCHANGED fetchVars
    /\ UNCHANGED mainVars
    /\ UNCHANGED <<items, batch_size, hook, func, batch_num, results, processed,
                   posts, payload, decoded, cd>>

\* lines 68-69: all_responses.extend(batch_responses)
ExtendResponses ==
    /\ pc = "gather"
    /\ GatherDone(batch_num)
    /\ results' = results \o gather(batch_num, finished)
    /\ batch_num' = batch_num + 1
    /\ pc' = "loop"
    /\ UNCHANGED fetchVars
    /\ UNCHANGED mainVars
    /\ UNCHANGED <<items, batch_size, hook, func, tasks, finished, processed, posts,
                   payload, decoded, cd>>

\* lines 71-73: the responses are validated as Companies and returned; a
\* ValidationError leaves the function
ValidateCompanies ==
    /\ pc = "loop"
    /\ batch_num > Len(chunk_list(items, ChunkSize))
    /\ ret' = model_validate("Companies", Obj([companies |-> List(results)]))
    /\ pc' = IF ret' = Err THEN "raised" ELSE "returned"
    /\ UNCHANGED mainVars
    /\ UNCHANGED <<batchVars, decodeVars, cd, config, request, resp>>

NextCompanies ==
    \/ GatherChunk
    \/ \E i \in 1..MaxItems : TaskStart(i)
    \/ \E i \in 1..MaxItems, kind \in ResponseKinds : TaskComplete(i, kind)
    \/ ExtendResponses
    \/ ValidateCompanies

SpecCompanies == InitCompanies /\ [][NextCompanies]_vars

\* C15: for any list of ids fetch_companies ends by returning, never by
\* raising, and what it returns holds one entry per id: the results of the
\* batches of 100 in batch order, in input order within each batch.
C15_CompaniesReturned ==
    pc \in {"raised", "returned"} =>
        /\ pc = "returned"
        /\ ret # Err
        /\ Len(results) = Len(items)
        /\ \A i \in DOMAIN items : tasks[i].item = items[i] /\ results[i] = tasks[i].ret

(***************************************************************************)
(* main.main(): fetch, validate, build the table.                          *)
(***************************************************************************)
\* line 38: batch_size=100
MainBatchSize == 100

Bool(b) == [t |-> "bool", b |-> b]

\* the raw JSON body, or the failure dict of fetch_company when the request
\* or the decoding failed
client_outcome(r, body) ==
    IF r.raised \/ IsFailure(r.value) THEN r ELSE Returns(body)

\* CraftApiClient.fetch_company
client_fetch_company(company_id, kind) ==
    client_outcome(FetchCompanyCalls[company_id, kind], Response(company_id, kind).body)

\* BaseModel.model_dump(): the fields by name, nested models dumped, with the
\* computed fields of ComplianceData
RECURSIVE model_dump(_)
model_dump(v) ==
    CASE v.t = "model" ->
            LET fields == [n \in DOMAIN v.f |-> model_dump(v.f[n])]
            IN  IF v.cls = "ComplianceData"
                THEN Obj(fields @@
                         [compliance_flag_adverse_media |->
                              Bool(compliance_flag_adverse_media(v)),
                          compliance_flag_enforcements |->
                              Bool(compliance_flag_enforcements(v)),
                          compliance_flag_state_owned |->
                              Bool(compliance_flag_state_owned(v)),
                          compliance_flag_persons_of_interest |->
                              Bool(compliance_flag_persons_of_interest(v)),
                          compliance_flag_current_sanctions |->
                              Bool(compliance_flag_current_sanctions(v)),
                          compliance_flag_former_sanctions |->
                              Bool(compliance_flag_former_sanctions(v)),
                          compliance_flag_current_peps |->
                              Bool(compliance_flag_current_peps(v)),
                          compliance_flag_former_peps |->
                              Bool(compliance_flag_former_peps(v))])
                ELSE Obj(fields)
      [] v.t = "list" -> List([i \in DOMAIN v.l |-> model_dump(v.l[i])])
      [] OTHER -> v

\* ApiResponse.model_validate of every value client.fetch_company may
\* return, evaluated once
ValidatedResults ==
    {[result |-> v, response |-> model_validate("ApiResponse", v)] :
        v \in {client_fetch_company(id, kind).value :
                  id \in Ids, kind \in ResponseKinds}}

InitMain ==
    /\ items \in ItemLists
    /\ batch_size = MainBatchSize
    /\ hook = FALSE
    /\ func = "client.fetch_company"
    /\ pc = "loop"
    /\ batch_num = 1
    /\ tasks = <<>>
    /\ finished = <<>>
    /\ results = <<>>
    /\ processed = Null
    /\ posts = 0
    /\ payload = Null
    /\ decoded = Null
    /\ cd = Null
    /\ config = ApiConfig
    /\ request = Null
    /\ resp = Null
    /\ ret = Null
    /\ responses = Null
    /\ companies_table = Null

\* the awaited call of client.fetch_company for item i completes
ClientTaskComplete(i, kind) ==
    /\ i \in DOMAIN tasks
    /\ tasks[i].st = "inflight"
    /\ LET r == client_fetch_company(tasks[i].item, kind)
       IN  tasks' = [tasks EXCEPT ![i].st = IF r.raised THEN "raised" ELSE "done",
                                  ![i].status = Response(tasks[i].item, kind).status,
                                  ![i].ret = r.value]
    /\ finished' = Append(finished, i)
    /\ UNCHANGED fetchVars
    /\ UNCHANGED mainVars
    /\ UNCHANGED <<items, batch_size, hook, func, pc, batch_num, results, processed,
                   posts, payload, decoded, cd>>

\* lines 40-42: every result is validated as an ApiResponse; a
\* ValidationError leaves main
ValidateResponses ==
    /\ pc = "returned"
    /\ LET rs == [i \in DOMAIN results |-> (CHOOSE e \in ValidatedResults :
                                                  e.result = results[i]).response]
       IN  IF \E i \in DOMAIN rs : rs[i] = Err
           THEN responses' = Err /\ pc' = "raised"
           ELSE responses' = List(rs) /\ pc' = "validated"
    /\ UNCHANGED fetchVars
    /\ UNCHANGED <<batchVars, decodeVars, cd, companies_table>>

\* lines 44-46: r.data.company.model_dump() of every response makes the rows;
\* an attribute read on None raises AttributeError and leaves main
DumpCompanies ==
    /\ pc = "validated"
    /\ LET rs == responses.l
       IN  IF \E i \in DOMAIN rs : rs[i].f.data = Null \/ rs[i].f.data.f.company = Null
           THEN companies_table' = Err /\ pc' = "raised"
           ELSE /\ companies_table' =
                        List([i \in DOMAIN rs |-> model_dump(rs[i].f.data.f.company)])
                /\ pc' = "table"
    /\ UNCHANGED fetchVars
    /\ UNCHANGED <<batchVars, decodeVars, cd, responses>>

NextMain ==
    \/ GatherBatch
    \/ \E i \in 1..MaxItems : TaskStart(i)
    \/ \E i \in 1..MaxItems, kind \in ResponseKinds : ClientTaskComplete(i, kind)
    \/ GatherReturn
    \/ Return
    \/ ValidateResponses
    \/ DumpCompanies

SpecMain == InitMain /\ [][NextMain]_vars

\* response i holds a company
HoldsCompany(i) ==
    /\ responses.l[i].f.data # Null
    /\ responses.l[i].f.data.f.company # Null

\* C16: when the results of the fetch hold both failures and successes, the
\* steps after the fetch do not raise: the table is built, and it has the
\* row of every successfully fetched company.
C16_FailureNotEscalated ==
    (/\ pc \in {"raised", "table"}
     /\ responses # Err
     /\ \E i \in DOMAIN results : IsFailure(results[i])
     /\ \E i \in DOMAIN results : HoldsCompany(i)) =>
        /\ pc = "table"
        /\ \A i \in DOMAIN results :
              HoldsCompany(i) =>
                  \E k \in DOMAIN companies_table.l :
                      companies_table.l[k] = model_dump(responses.l[i].f.data.f.company)

====
